---- MODULE Spec2Model ----
(***************************************************************************)
(* The activation layers of AIfES (Leaky ReLU and Sigmoid) as a state      *)
(* machine: the layer nodes of a graph, their tensor descriptors and       *)
(* tensor storage, the initializers that wire the graph, and the           *)
(* forward / backward / calc_result_shape handlers.                        *)
(*                                                                         *)
(* Numbers are exact rationals <<numerator, denominator>> (denominator     *)
(* positive, lowest terms).  A pointer is the number of the node (or of    *)
(* the shape array) it points to; NULL is the null pointer.                *)
(***************************************************************************)
EXTENDS Integers, Sequences, FiniteSets, TLC

\* ------------------------------------------------------------------ bounds
NumLayers == 2
Cap == 3

\* ---------------------------------------------------------------- pointers
NULL == 0
InputLayer == NULL + 1
Layers == (InputLayer + 1)..(InputLayer + NumLayers)
LossNode == InputLayer + NumLayers + 1
Nodes == InputLayer..LossNode
InputShape == InputLayer

\* --------------------------------------------------------------- rationals
RECURSIVE Gcd(_, _)
Gcd(a, b) == IF b = 0 THEN a ELSE Gcd(b, a % b)

Abs(n) == IF n < 0 THEN -n ELSE n

Norm(n, d) == LET g == Gcd(Abs(n), d) IN <<n \div g, d \div g>>

R(n) == <<n, 1>>

RMul(a, b) == Norm(a[1] * b[1], a[2] * b[2])

RAdd(a, b) == Norm(a[1] * b[2] + b[1] * a[2], a[2] * b[2])

RSub(a, b) == Norm(a[1] * b[2] - b[1] * a[2], a[2] * b[2])

RLess(a, b) == a[1] * b[2] < b[1] * a[2]

RAbs(a) == <<Abs(a[1]), a[2]>>

\* ----------------------------------------------------------------- tensors
\* A tensor descriptor is [dtype, dim, shape, data]: shape is a pointer to a
\* shape array in shapeMem, data the contents of the tensor's storage.
DTypes == {"f32", "q7"}

RECURSIVE Prod(_, _)
Prod(s, k) == IF k = 0 THEN 1 ELSE s[k] * Prod(s, k - 1)

\* aimath_tensor_elements: the product of the first dim entries of the shape
\* array the tensor points to.
Elements(t, mem) ==
    IF t.shape = NULL \/ t.dim > Len(mem[t.shape]) THEN 0
    ELSE Prod(mem[t.shape], t.dim)

\* aimath_sizeof_tensor_params: the bytes of the dtype's parameter block.
SizeofTensorParams(t) == IF t.dtype = "q7" THEN 4 ELSE 0

\* aimath_sizeof_tensor_data: the bytes of the tensor's payload.
SizeofTensorData(t, mem) == Elements(t, mem) * (IF t.dtype = "q7" THEN 1 ELSE 4)

\* An elementwise sweep: out[i] := f(i) for the first n elements, the rest of
\* the output storage is left as it was.
Sweep(n, out, f(_)) == [i \in 1..Len(out) |-> IF i <= n THEN f(i) ELSE out[i]]

\* ----------------------------------------------------------------- kernels
\* layer->leaky_relu(x, alpha, result): alpha * x_i if x_i < 0, x_i otherwise.
LeakyReluKernel(x, alpha, out, mem) ==
    LET f(i) == IF RLess(x.data[i], R(0)) THEN RMul(alpha, x.data[i]) ELSE x.data[i]
    IN  Sweep(Elements(x, mem), out, f)

\* layer->d_leaky_relu(x, alpha, result): alpha if x_i < 0, 1 otherwise.
DLeakyReluKernel(x, alpha, out, mem) ==
    LET f(i) == IF RLess(x.data[i], R(0)) THEN alpha ELSE R(1)
    IN  Sweep(Elements(x, mem), out, f)

\* layer->multiply(a, b, result): result = a o b, elementwise.
MultiplyKernel(a, bdata, out, mem) ==
    LET f(i) == RMul(a.data[i], bdata[i])
    IN  Sweep(Elements(a, mem), out, f)

\* The sigmoid of one number, as a fixed-point kernel computes it: the
\* piecewise-linear approximation of 1 / (1 + e^-x), exact at 0 and within
\* 0.02 of it everywhere.
SigmoidPos(a) ==
    IF ~RLess(a, R(5)) THEN R(1)
    ELSE IF ~RLess(a, <<19, 8>>) THEN RAdd(RMul(<<1, 32>>, a), <<27, 32>>)
    ELSE IF ~RLess(a, R(1)) THEN RAdd(RMul(<<1, 8>>, a), <<5, 8>>)
    ELSE RAdd(RMul(<<1, 4>>, a), <<1, 2>>)

SigmoidScalar(x) ==
    IF RLess(x, R(0)) THEN RSub(R(1), SigmoidPos(RAbs(x))) ELSE SigmoidPos(x)

\* The derivative, from the sigmoid's own output: s * (1 - s).
DSigmoidScalar(s) == RMul(s, RSub(R(1), s))

\* layer->sigmoid(x, result)
SigmoidKernel(x, out, mem) ==
    LET f(i) == SigmoidScalar(x.data[i])
    IN  Sweep(Elements(x, mem), out, f)

\* layer->d_sigmoid(sigmoid_x, result)
DSigmoidKernel(s, out, mem) ==
    LET f(i) == DSigmoidScalar(s.data[i])
    IN  Sweep(Elements(s, mem), out, f)

\* ------------------------------------------------------------------- state
VARIABLES
    cfg,        \* node -> the concrete layer struct's own fields: kind, dtype, alpha
    base,       \* node -> the ailayer_t base record (links, callbacks, counts)
    result,     \* node -> the result tensor
    deltas,     \* node -> the gradient tensor
    shapeMem,   \* shape array -> its entries
    scratch,    \* the scratch tensors of the backward calls in progress
    pc,         \* the position of the call in progress: [at, self]
    fault,      \* the program trapped on a null / indeterminate pointer
    handles,    \* the node handles the builder holds
    built,      \* the initializer calls made so far, in order: <<node, predecessor>>
    written,    \* the nodes whose gradient was deposited in the current backward pass
    drv,        \* the position of the training loop
    last        \* the call made last: the handler, its arguments, what it returned

vars == <<cfg, base, result, deltas, shapeMem, scratch, pc, fault, handles,
          built, written, drv, last>>

\* ---------------------------------------------------------- initial values
Fill(v) == [i \in 1..Cap |-> v]

\* Test vectors, repeated to the capacity of the storage.
VecA == [i \in 1..Cap |-> CASE i % 3 = 1 -> R(-2) [] i % 3 = 2 -> R(0) [] OTHER -> R(3)]
VecB == [i \in 1..Cap |-> CASE i % 3 = 1 -> R(3) [] i % 3 = 2 -> R(-2) [] OTHER -> R(-1)]
InputVecs == {VecA, Fill(R(0))}
GradVecs == {Fill(R(1)), VecB}
FillVals == {R(0), R(1)}

\* The shapes of the given dimensionality that hold one element or fill the
\* storage.
RECURSIVE ShapesOf(_)
ShapesOf(dim) ==
    IF dim = 0 THEN {<<>>}
    ELSE {Append(s, k) : s \in ShapesOf(dim - 1), k \in 1..Cap}

FittingShapes(dim) == {s \in ShapesOf(dim) : Prod(s, dim) \in {1, Cap}}

Alphas == {<<1, 10>>, <<1, 2>>}

LayerConfigs ==
    [kind : {"leaky_relu"}, dtype : DTypes, alpha : Alphas]
    \cup [kind : {"sigmoid"}, dtype : DTypes, alpha : {R(0)}]

\* The contents of node storage no initializer has written yet.
RawTensor(fill) == [dtype |-> "unset", dim |-> 0, shape |-> NULL, data |-> Fill(fill)]

RawBase ==
    [layer_type |-> "unset", input_layer |-> NULL, output_layer |-> NULL,
     layer_configuration |-> NULL, forward |-> "unset", backward |-> "unset",
     calc_result_shape |-> "unset", sizeof_paramem |-> "unset",
     set_paramem |-> "unset", sizeof_trainmem |-> "unset", set_trainmem |-> "unset",
     trainable_params_count |-> -1]

InputBase == [RawBase EXCEPT !.layer_type = "input", !.trainable_params_count = 0]

NoCall == [at |-> "idle", self |-> NULL]

Returned(op, self, arg, ret, flag) ==
    [op |-> op, self |-> self, arg |-> arg, ret |-> ret, flag |-> flag]

NoLast == Returned("none", NULL, NULL, NULL, FALSE)

\* The state after the caller has allocated the node storage and set up the
\* input layer (dtype, dimensionality, shape array, data).
InitWith(inDtype, inDim, layerDtypes, phase) ==
    \E fill \in FillVals, x \in InputVecs, s \in FittingShapes(inDim) :
      /\ cfg \in [Layers -> {c \in LayerConfigs : c.dtype \in layerDtypes}]
      /\ base = [n \in Nodes |-> IF n = InputLayer THEN InputBase ELSE RawBase]
      /\ result = [n \in Nodes |->
                     IF n = InputLayer
                     THEN [dtype |-> inDtype, dim |-> inDim, shape |-> InputShape, data |-> x]
                     ELSE RawTensor(fill)]
      /\ deltas = [n \in Nodes |-> RawTensor(fill)]
      /\ shapeMem = [a \in {InputShape} |-> s]
      /\ scratch = <<>>
      /\ pc = NoCall
      /\ fault = FALSE
      /\ handles = {InputLayer}
      /\ built = <<>>
      /\ written = {}
      /\ drv = [phase |-> phase, at |-> InputLayer]
      /\ last = NoLast

\* A model of one dtype on a two-dimensional input: what the layers are
\* documented for.
Init == \E d \in DTypes : InitWith(d, 2, {d}, "free")

\* ------------------------------------------------------------ initializers
ForwardOf(kind) ==
    IF kind = "leaky_relu" THEN "ailayer_leaky_relu_forward" ELSE "ailayer_sigmoid_forward"

BackwardOf(kind) ==
    IF kind = "leaky_relu" THEN "ailayer_leaky_relu_backward" ELSE "ailayer_sigmoid_backward"

ShapeFnOf(kind) ==
    IF kind = "leaky_relu" THEN "ailayer_leaky_relu_calc_result_shape"
    ELSE "ailayer_sigmoid_calc_result_shape"

TypeOf(kind) ==
    IF kind = "leaky_relu" THEN "ailayer_leaky_relu_type" ELSE "ailayer_sigmoid_type"

\* The base record of layer as the initializer leaves it.
InitializedBase(b, layer, input_layer, kind) ==
    [b EXCEPT !.layer_type = TypeOf(kind),
              !.input_layer = input_layer,
              !.layer_configuration = layer,
              !.forward = ForwardOf(kind),
              !.backward = BackwardOf(kind),
              !.calc_result_shape = ShapeFnOf(kind),
              !.sizeof_paramem = "null",
              !.set_paramem = "null",
              !.sizeof_trainmem = "null",
              !.set_trainmem = "null",
              !.trainable_params_count = 0]

\* Mutant: the result's dtype is copied from the predecessor's result.
InitializedResult_PredDtype(r, dtype, inResult) ==
    [r EXCEPT !.dtype = inResult.dtype, !.shape = inResult.shape, !.dim = inResult.dim]

\* layer->base.result as the initializer leaves it: the layer's own dtype,
\* the predecessor's shape pointer and dimensionality.
InitializedResult(r, dtype, inResult) ==
    [r EXCEPT !.dtype = dtype, !.shape = inResult.shape, !.dim = inResult.dim]

\* Mutant: the gradient slot's shape pointer is not set.
InitializedDeltas_NoShape(d, dtype, ownResult) ==
    [d EXCEPT !.dtype = dtype, !.dim = 2]

\* layer->base.deltas as the initializer leaves it: the layer's own dtype,
\* dimensionality 2, the shape pointer of the layer's result.
InitializedDeltas(d, dtype, ownResult) ==
    [d EXCEPT !.dtype = dtype, !.dim = 2, !.shape = ownResult.shape]

\* Mutant: the predecessor's successor link is not written.
LinkSuccessor_Skipped(b, layer, input_layer) == b

\* input_layer->output_layer = &(layer->base); a write through the null
\* pointer lands outside the graph.
LinkSuccessor(b, layer, input_layer) ==
    IF input_layer = NULL THEN b ELSE [b EXCEPT ![input_layer].output_layer = layer]

\* Mutant: the initializer returns the predecessor's handle.
ReturnedHandle_Predecessor(layer, input_layer) == input_layer

\* What the initializer returns: &(layer->base).
ReturnedHandle(layer, input_layer) == layer

\* What input_layer->result reads: the predecessor's descriptor, or, through
\* the null pointer, anything.
PredecessorResult(input_layer) ==
    IF input_layer # NULL THEN {result[input_layer]}
    ELSE {RawTensor(R(0)), [RawTensor(R(0)) EXCEPT !.shape = InputShape, !.dim = 2]}

\* Whether the node has been initialized: it has a valid result tensor.
Initialized(n) == n # NULL /\ base[n].layer_type # "unset"

\* The initializer of a layer of the given kind, called on any pointer.  The
\* code checks nothing: a null predecessor either traps at the write of its
\* successor link or is read and written as if it were a node.
Initializer(kind, layer, input_layer) ==
    /\ pc.at = "idle" /\ ~fault
    /\ cfg[layer].kind = kind
    /\ base[layer].layer_type = "unset"
    /\ input_layer # layer
    /\ \/ /\ \E inResult \in PredecessorResult(input_layer) :
               LET b1 == [base EXCEPT ![layer] = InitializedBase(@, layer, input_layer, kind)]
                   r1 == InitializedResult(result[layer], cfg[layer].dtype, inResult)
               IN  /\ base' = LinkSuccessor(b1, layer, input_layer)
                   /\ result' = [result EXCEPT ![layer] = r1]
                   /\ deltas' = [deltas EXCEPT ![layer] =
                                   InitializedDeltas(@, cfg[layer].dtype, r1)]
          /\ handles' = handles \cup {ReturnedHandle(layer, input_layer)}
          /\ built' = Append(built, <<layer, input_layer>>)
          /\ last' = Returned("initialize", layer, input_layer,
                              ReturnedHandle(layer, input_layer), Initialized(input_layer))
          /\ fault' = FALSE
       \/ /\ input_layer = NULL
          /\ base' = [base EXCEPT ![layer].layer_type = TypeOf(kind),
                                  ![layer].input_layer = NULL]
          /\ fault' = TRUE
          /\ last' = Returned("initialize", layer, NULL, NULL, FALSE)
          /\ UNCHANGED <<result, deltas, handles, built>>
    /\ UNCHANGED <<cfg, shapeMem, scratch, pc, written>>

ailayer_leaky_relu(layer, input_layer) ==
    Initializer("leaky_relu", layer, input_layer) /\ UNCHANGED drv

ailayer_sigmoid(layer, input_layer) ==
    Initializer("sigmoid", layer, input_layer) /\ UNCHANGED drv

\* ----------------------------------------------------------------- forward
\* Mutant: the activation is also written back into the predecessor's result.
LeakyReluForward_InPlace(self) ==
    LET layer == cfg[base[self].layer_configuration]
        p == base[self].input_layer
        y == LeakyReluKernel(result[p], layer.alpha, result[self].data, shapeMem)
    IN  [result EXCEPT ![self].data = y, ![p].data = y]

\* result after ailayer_leaky_relu_forward(self)
LeakyReluForward(self) ==
    LET layer == cfg[base[self].layer_configuration]
        x_in == result[base[self].input_layer]
    IN  [result EXCEPT ![self].data = LeakyReluKernel(x_in, layer.alpha, @, shapeMem)]

\* result after ailayer_sigmoid_forward(self)
SigmoidForward(self) ==
    LET x_in == result[base[self].input_layer]
    IN  [result EXCEPT ![self].data = SigmoidKernel(x_in, @, shapeMem)]

\* self->forward(self), through the callback the initializer installed.
ForwardCall(self) ==
    /\ pc.at = "idle" /\ ~fault
    /\ base[self].forward # "unset"
    /\ result' = IF base[self].forward = "ailayer_leaky_relu_forward"
                 THEN LeakyReluForward(self) ELSE SigmoidForward(self)
    /\ last' = Returned("forward", self, NULL, NULL, FALSE)
    /\ UNCHANGED <<cfg, base, deltas, shapeMem, scratch, pc, fault, handles, built,
                   written>>

ailayer_leaky_relu_forward(self) ==
    /\ base[self].forward = "ailayer_leaky_relu_forward"
    /\ ForwardCall(self)
    /\ UNCHANGED drv

ailayer_sigmoid_forward(self) ==
    /\ base[self].forward = "ailayer_sigmoid_forward"
    /\ ForwardCall(self)
    /\ UNCHANGED drv

\* ---------------------------------------------------------------- backward
\* Mutant: backward reads the gradient slot of the predecessor.
GradientSource_Predecessor(self) == base[self].input_layer

\* The node whose gradient slot backward reads: self->output_layer.
GradientSource(self) == base[self].output_layer

\* What a read of self->output_layer->deltas yields: the successor's gradient
\* storage, or, through a null pointer, anything.
SuccessorGradient(self) ==
    IF GradientSource(self) # NULL
    THEN {deltas[GradientSource(self)].data}
    ELSE GradVecs

\* Whether the gradient self reads was deposited in the current backward pass.
ReadsFresh(self) == GradientSource(self) # NULL /\ GradientSource(self) \in written

\* The gradients deposited in the training loop's current backward pass, once
\* self has deposited its own; outside a pass there is none to record.
Deposit(self) == IF drv.phase = "free" THEN written ELSE written \cup {self}

\* Mutant: the multiplication by the successor's gradient is left out.
LeakyReluBackward_DerivativeOnly(self, g) ==
    LET layer == cfg[base[self].layer_configuration]
        x_in == result[base[self].input_layer]
    IN  [deltas EXCEPT ![self].data = DLeakyReluKernel(x_in, layer.alpha, @, shapeMem)]

\* deltas after ailayer_leaky_relu_backward(self), reading g as the successor's
\* gradient: delta_in = d_leaky_relu(x_in); delta_in = delta_in o delta_out.
LeakyReluBackward(self, g) ==
    LET layer == cfg[base[self].layer_configuration]
        x_in == result[base[self].input_layer]
        d1 == [deltas[self] EXCEPT !.data = DLeakyReluKernel(x_in, layer.alpha, @, shapeMem)]
    IN  [deltas EXCEPT ![self] = [d1 EXCEPT !.data = MultiplyKernel(d1, g, @, shapeMem)]]

\* deltas when the read of the successor traps: the derivative is already in
\* the gradient slot.
LeakyReluBackwardTrapped(self) ==
    LET layer == cfg[base[self].layer_configuration]
        x_in == result[base[self].input_layer]
    IN  [deltas EXCEPT ![self].data = DLeakyReluKernel(x_in, layer.alpha, @, shapeMem)]

LeakyReluBackwardCall(self) ==
    /\ pc.at = "idle" /\ ~fault
    /\ base[self].backward = "ailayer_leaky_relu_backward"
    /\ \/ /\ \E g \in SuccessorGradient(self) : deltas' = LeakyReluBackward(self, g)
          /\ fault' = FALSE
          /\ written' = Deposit(self)
          /\ last' = Returned("backward", self, NULL, NULL, ReadsFresh(self))
       \/ /\ GradientSource(self) = NULL
          /\ deltas' = LeakyReluBackwardTrapped(self)
          /\ fault' = TRUE
          /\ last' = Returned("backward", self, NULL, NULL, FALSE)
          /\ UNCHANGED written
    /\ UNCHANGED <<cfg, base, result, shapeMem, scratch, pc, handles, built>>

ailayer_leaky_relu_backward(self) == LeakyReluBackwardCall(self) /\ UNCHANGED drv

\* The scratch tensor ailayer_sigmoid_backward declares: temp_result over the
\* arrays temp_result_params and temp_result_data, whose contents are whatever
\* the stack held.
ScratchTensor(x_in, fill) ==
    [dim |-> 2, shape |-> x_in.shape, dtype |-> x_in.dtype,
     data |-> [i \in 1..Elements(x_in, shapeMem) |-> fill],
     params_bytes |-> SizeofTensorParams(x_in) + 1,
     data_bytes |-> SizeofTensorData(x_in, shapeMem)]

\* Mutant: the scratch tensor is a buffer that outlives the call.
ReleaseScratch_Kept(stack) == stack

\* The stack after the call returns: temp_result is gone.
ReleaseScratch(stack) == SubSeq(stack, 1, Len(stack) - 1)

\* Mutant: the activation is taken from the node's own result tensor, as the
\* last forward call left it, instead of being recomputed.
ScratchSigmoid_Cached(self, temp) ==
    [temp EXCEPT !.data = [i \in 1..Len(temp.data) |-> result[self].data[i]]]

\* temp_result after layer->sigmoid(x_in, &temp_result).
ScratchSigmoid(self, temp) ==
    [temp EXCEPT !.data = SigmoidKernel(result[base[self].input_layer], @, shapeMem)]

\* temp_result after layer->d_sigmoid(&temp_result, &temp_result).
ScratchDSigmoid(temp) == [temp EXCEPT !.data = DSigmoidKernel(temp, @, shapeMem)]

\* Mutant: the scratch tensor is multiplied into the node's own gradient slot.
SigmoidMultiply_Accumulate(self, temp, g) ==
    [deltas EXCEPT ![self].data = MultiplyKernel(temp, deltas[self].data, @, shapeMem)]

\* deltas after layer->multiply(&temp_result, delta_out, delta_in).
SigmoidMultiply(self, temp, g) ==
    [deltas EXCEPT ![self].data = MultiplyKernel(temp, g, @, shapeMem)]

\* ailayer_sigmoid_backward(self), statement by statement: the declaration of
\* the scratch tensor, the three kernel calls, the return.
SigmoidBackwardEnter(self) ==
    /\ pc.at = "idle" /\ ~fault
    /\ base[self].backward = "ailayer_sigmoid_backward"
    /\ \E fill \in FillVals :
         scratch' = Append(scratch, ScratchTensor(result[base[self].input_layer], fill))
    /\ pc' = [at |-> "sigmoid", self |-> self]
    /\ UNCHANGED <<cfg, base, result, deltas, shapeMem, fault, handles, built,
                   written, drv, last>>

SigmoidBackwardSigmoid ==
    /\ pc.at = "sigmoid" /\ ~fault
    /\ scratch' = [scratch EXCEPT ![Len(scratch)] = ScratchSigmoid(pc.self, @)]
    /\ pc' = [pc EXCEPT !.at = "d_sigmoid"]
    /\ UNCHANGED <<cfg, base, result, deltas, shapeMem, fault, handles, built,
                   written, drv, last>>

SigmoidBackwardDSigmoid ==
    /\ pc.at = "d_sigmoid" /\ ~fault
    /\ scratch' = [scratch EXCEPT ![Len(scratch)] = ScratchDSigmoid(@)]
    /\ pc' = [pc EXCEPT !.at = "multiply"]
    /\ UNCHANGED <<cfg, base, result, deltas, shapeMem, fault, handles, built,
                   written, drv, last>>

SigmoidBackwardMultiply ==
    /\ pc.at = "multiply" /\ ~fault
    /\ \/ /\ \E g \in SuccessorGradient(pc.self) :
               deltas' = SigmoidMultiply(pc.self, scratch[Len(scratch)], g)
          /\ pc' = [pc EXCEPT !.at = "return"]
          /\ fault' = FALSE
       \/ /\ GradientSource(pc.self) = NULL
          /\ fault' = TRUE
          /\ UNCHANGED <<deltas, pc>>
    /\ UNCHANGED <<cfg, base, result, shapeMem, scratch, handles, built, written,
                   drv, last>>

SigmoidBackwardReturnCall ==
    /\ pc.at = "return" /\ ~fault
    /\ scratch' = ReleaseScratch(scratch)
    /\ pc' = NoCall
    /\ written' = Deposit(pc.self)
    /\ last' = Returned("backward", pc.self, NULL, NULL, ReadsFresh(pc.self))
    /\ UNCHANGED <<cfg, base, result, deltas, shapeMem, fault, handles, built>>

SigmoidBackwardReturn == SigmoidBackwardReturnCall /\ UNCHANGED drv

ailayer_sigmoid_backward(self) == SigmoidBackwardEnter(self)

\* ------------------------------------------------------- calc_result_shape
\* ailayer_leaky_relu_calc_result_shape / ailayer_sigmoid_calc_result_shape:
\* the shape is shared with the predecessor, nothing is computed.
CalcResultShapeEffect(self) ==
    [base |-> base, result |-> result, deltas |-> deltas, shapeMem |-> shapeMem]

CalcResultShape(self) ==
    /\ pc.at = "idle" /\ ~fault
    /\ base[self].calc_result_shape # "unset"
    /\ LET e == CalcResultShapeEffect(self)
       IN  /\ base' = e.base
           /\ result' = e.result
           /\ deltas' = e.deltas
           /\ shapeMem' = e.shapeMem
    /\ last' = Returned("calc_result_shape", self, NULL, NULL, FALSE)
    /\ UNCHANGED <<cfg, scratch, pc, fault, handles, built, written, drv>>

ailayer_leaky_relu_calc_result_shape(self) ==
    /\ base[self].calc_result_shape = "ailayer_leaky_relu_calc_result_shape"
    /\ CalcResultShape(self)

ailayer_sigmoid_calc_result_shape(self) ==
    /\ base[self].calc_result_shape = "ailayer_sigmoid_calc_result_shape"
    /\ CalcResultShape(self)

\* ------------------------------------------------------------- environment
\* The owner of the input layer changes the values of its shape array (a new
\* batch size, say).
Reshape(s) ==
    /\ pc.at = "idle" /\ ~fault
    /\ shapeMem[InputShape] # s
    /\ shapeMem' = [shapeMem EXCEPT ![InputShape] = s]
    /\ last' = Returned("reshape", InputLayer, NULL, NULL, FALSE)
    /\ UNCHANGED <<cfg, base, result, deltas, scratch, pc, fault, handles, built,
                   written, drv>>

\* --------------------------------------------------------- specifications
Build(preds) ==
    \/ \E layer \in Layers, input_layer \in preds : ailayer_leaky_relu(layer, input_layer)
    \/ \E layer \in Layers, input_layer \in preds : ailayer_sigmoid(layer, input_layer)

Compute ==
    \/ \E self \in Layers : ailayer_leaky_relu_forward(self)
    \/ \E self \in Layers : ailayer_sigmoid_forward(self)
    \/ \E self \in Layers : ailayer_leaky_relu_backward(self)
    \/ \E self \in Layers : ailayer_sigmoid_backward(self)
    \/ SigmoidBackwardSigmoid
    \/ SigmoidBackwardDSigmoid
    \/ SigmoidBackwardMultiply
    \/ SigmoidBackwardReturn
    \/ \E self \in Layers : ailayer_leaky_relu_calc_result_shape(self)
    \/ \E self \in Layers : ailayer_sigmoid_calc_result_shape(self)

ShapeCalls ==
    \/ \E self \in Layers : ailayer_leaky_relu_calc_result_shape(self)
    \/ \E self \in Layers : ailayer_sigmoid_calc_result_shape(self)
    \/ \E s \in FittingShapes(result[InputLayer].dim) : Reshape(s)

\* The calls of a program that passes the initializers the handles it holds:
\* the input layer's and those earlier initializers returned.  The handlers
\* are called in any order.
Next == Build(handles) \/ Compute

Spec == Init /\ [][Next]_vars

\* The construction of the graph on a model of one dtype, with the shape of the
\* input changing under it.
NextBuild == Build(handles) \/ ShapeCalls

SpecBuild == Init /\ [][NextBuild]_vars

\* The construction of the graph by a caller that keeps none of the
\* initializers' preconditions: any node storage or the null pointer as the
\* predecessor, any dtype in the layer's own field, an input of two or three
\* dimensions.
InitUnchecked == \E d \in DTypes, dim \in {2, 3} : InitWith(d, dim, DTypes, "free")

NextUnchecked == Build((Nodes \ {LossNode}) \cup {NULL}) \/ ShapeCalls

SpecUnchecked == InitUnchecked /\ [][NextUnchecked]_vars

\* ------------------------------------------------------------ training loop
\* The sequencing the layers are written for: the graph is built front to
\* back, each initializer on the handle the one before returned, and closed by
\* the loss; then, pass after pass, the input is written, forward runs from
\* the first layer to the last, the loss deposits its gradient, and backward
\* runs from the last layer to the first.
InitLoop == \E d \in DTypes : InitWith(d, 2, {d}, "build")

LoopBuild ==
    /\ drv.phase = "build"
    /\ \E layer \in Layers :
         /\ Initializer(cfg[layer].kind, layer, drv.at)
         /\ drv' = [drv EXCEPT !.at = layer]

LoopAttachLoss ==
    /\ drv.phase = "build"
    /\ \A layer \in Layers : Initialized(layer)
    /\ base' = [base EXCEPT ![drv.at].output_layer = LossNode,
                            ![LossNode].layer_type = "loss",
                            ![LossNode].input_layer = drv.at]
    /\ deltas' = [deltas EXCEPT ![LossNode].dtype = result[drv.at].dtype,
                                ![LossNode].dim = 2,
                                ![LossNode].shape = result[drv.at].shape]
    /\ drv' = [phase |-> "input", at |-> InputLayer]
    /\ last' = Returned("attach_loss", LossNode, drv.at, LossNode, TRUE)
    /\ UNCHANGED <<cfg, result, shapeMem, scratch, pc, fault, handles, built, written>>

LoopInput ==
    /\ drv.phase = "input"
    /\ \E x \in InputVecs : result' = [result EXCEPT ![InputLayer].data = x]
    /\ written' = {}
    /\ drv' = [phase |-> "forward", at |-> base[InputLayer].output_layer]
    /\ last' = Returned("write_input", InputLayer, NULL, NULL, FALSE)
    /\ UNCHANGED <<cfg, base, deltas, shapeMem, scratch, pc, fault, handles, built>>

LoopForward ==
    /\ drv.phase = "forward"
    /\ drv.at \in Layers
    /\ ForwardCall(drv.at)
    /\ drv' = IF base[drv.at].output_layer = LossNode
              THEN [phase |-> "loss", at |-> LossNode]
              ELSE [phase |-> "forward", at |-> base[drv.at].output_layer]

LoopLoss ==
    /\ drv.phase = "loss"
    /\ \E g \in GradVecs : deltas' = [deltas EXCEPT ![LossNode].data = g]
    /\ written' = {LossNode}
    /\ drv' = [phase |-> "backward", at |-> base[LossNode].input_layer]
    /\ last' = Returned("loss", LossNode, NULL, NULL, FALSE)
    /\ UNCHANGED <<cfg, base, result, shapeMem, scratch, pc, fault, handles, built>>

\* Where the backward pass goes after the node at: its predecessor, or, past
\* the first layer, the next pass.
LoopAdvance(at) ==
    IF base[at].input_layer \in Layers
    THEN [phase |-> "backward", at |-> base[at].input_layer]
    ELSE [phase |-> "input", at |-> InputLayer]

LoopBackward ==
    /\ drv.phase = "backward"
    /\ drv.at \in Layers
    /\ \/ LeakyReluBackwardCall(drv.at) /\ drv' = LoopAdvance(drv.at)
       \/ SigmoidBackwardEnter(drv.at)

LoopBackwardReturn ==
    /\ drv.phase = "backward"
    /\ SigmoidBackwardReturnCall
    /\ drv' = LoopAdvance(drv.at)

NextLoop ==
    \/ LoopBuild
    \/ LoopAttachLoss
    \/ LoopInput
    \/ LoopForward
    \/ LoopLoss
    \/ LoopBackward
    \/ SigmoidBackwardSigmoid
    \/ SigmoidBackwardDSigmoid
    \/ SigmoidBackwardMultiply
    \/ LoopBackwardReturn

SpecLoop == InitLoop /\ [][NextLoop]_vars

\* ------------------------------------------------------------------ claims
Pred(n) == base[n].input_layer

Succ(n) == base[n].output_layer

\* The layers whose initializer has returned.
Built == handles \ {InputLayer}

\* A handler has returned on self, no call is in progress and nothing trapped.
JustReturned(op, kind) ==
    /\ pc.at = "idle" /\ ~fault
    /\ last.op = op
    /\ cfg[last.self].kind = kind

\* C1: after ailayer_leaky_relu_backward(node) on a node with a successor, every
\* element i of the node's gradient slot within the extent is
\* (alpha if x[i] < 0, else 1) * g[i], with x the predecessor's result and g
\* the successor's gradient slot; x[i] = 0 takes the factor 1.
C1_LeakyReluBackwardGradient ==
    (JustReturned("backward", "leaky_relu") /\ Succ(last.self) # NULL) =>
        LET n == last.self
            x == result[Pred(n)].data
            g == deltas[Succ(n)].data
        IN  \A i \in 1..Elements(result[Pred(n)], shapeMem) :
              deltas[n].data[i] =
                  RMul(IF x[i][1] < 0 THEN cfg[n].alpha ELSE <<1, 1>>, g[i])

\* Scenario A: x = [-2, 0, 3], g = [1, 1, 1], alpha = 0.1 gives [0.1, 1, 1].
C1_Witness ==
    /\ JustReturned("backward", "leaky_relu") /\ Succ(last.self) # NULL
    /\ Elements(result[Pred(last.self)], shapeMem) = 3
    /\ result[Pred(last.self)].data = <<<<-2, 1>>, <<0, 1>>, <<3, 1>>>>
    /\ deltas[Succ(last.self)].data = <<<<1, 1>>, <<1, 1>>, <<1, 1>>>>
    /\ cfg[last.self].alpha = <<1, 10>>
    /\ deltas[last.self].data = <<<<1, 10>>, <<1, 1>>, <<1, 1>>>>

\* C2: after ailayer_sigmoid_backward(node) on a node with a successor, every
\* element of the node's gradient slot within the extent is
\* derivative(activate(x[i])) * g[i], with x the predecessor's result and g the
\* successor's gradient slot, whatever the node's own result tensor holds.
C2_SigmoidBackwardRecomputes ==
    (JustReturned("backward", "sigmoid") /\ Succ(last.self) # NULL) =>
        LET n == last.self
            x == result[Pred(n)].data
            g == deltas[Succ(n)].data
        IN  \A i \in 1..Elements(result[Pred(n)], shapeMem) :
              LET s == SigmoidScalar(x[i])
              IN  deltas[n].data[i] = RMul(RMul(s, RSub(<<1, 1>>, s)), g[i])

\* Scenario B: x = [0], g = [1] gives [0.25], on a node whose own result is
\* not the sigmoid of x (forward never ran, or ran on another input).
C2_Witness ==
    /\ JustReturned("backward", "sigmoid") /\ Succ(last.self) # NULL
    /\ Elements(result[Pred(last.self)], shapeMem) = 1
    /\ result[Pred(last.self)].data[1] = <<0, 1>>
    /\ deltas[Succ(last.self)].data[1] = <<1, 1>>
    /\ deltas[last.self].data[1] = <<1, 4>>
    /\ result[last.self].data[1] # <<1, 2>>

\* The result shape and the gradient shape of every initialized layer are the
\* predecessor's result shape: the same array, hence the same values.
C3_ShapeShared ==
    \A n \in Built :
        /\ result[n].shape # NULL
        /\ result[n].shape = result[Pred(n)].shape
        /\ deltas[n].shape = result[Pred(n)].shape
        /\ shapeMem[deltas[n].shape] = shapeMem[result[Pred(n)].shape]

\* A calc_result_shape call changes nothing of the program's state.
C3_CalcResultShapeNoOp ==
    last'.op = "calc_result_shape" =>
        UNCHANGED <<cfg, base, result, deltas, shapeMem, scratch, pc, fault>>

\* C3: in every state the result shape and the gradient shape of every
\* initialized layer are the predecessor's result shape, the same array and not
\* a copy, so a change of the predecessor's shape values shows in them without
\* any call; and calc_result_shape changes no state.
C3_ShapeIdentity == []C3_ShapeShared /\ [][C3_CalcResultShapeNoOp]_vars

\* The input's shape values changed after a chain of two layers was built on it.
C3_Witness ==
    /\ last.op = "reshape"
    /\ \E n \in Built : Pred(n) \in Built /\ Elements(result[n], shapeMem) = Cap

\* C4 as claimed: after initialize(node, predecessor) on an initialized
\* predecessor the node's result has the predecessor's dtype, and the gradient
\* slot has the result's dtype and dimensionality, which is 2.
C4_DtypeCopiedFromPredecessor ==
    (last.op = "initialize" /\ last.flag) =>
        /\ result[last.self].dtype = result[last.arg].dtype
        /\ deltas[last.self].dtype = result[last.self].dtype
        /\ deltas[last.self].dim = result[last.self].dim
        /\ result[last.self].dim = 2

\* C4 as amended: the result and the gradient slot of every initialized layer
\* have the dtype of the layer's own dtype field, the gradient slot has
\* dimensionality 2, and the result has the dimensionality the predecessor's
\* result had when the initializer ran.
C4_DtypeFromLayerField ==
    /\ \A n \in Built :
         /\ result[n].dtype = cfg[n].dtype
         /\ deltas[n].dtype = cfg[n].dtype
         /\ deltas[n].dim = 2
    /\ (last.op = "initialize" /\ last.arg # NULL) =>
         result[last.self].dim = result[last.arg].dim

\* A layer initialized on a valid predecessor of another dtype and of three
\* dimensions.
C4_Witness ==
    /\ last.op = "initialize" /\ last.flag
    /\ result[last.self].dtype # result[last.arg].dtype
    /\ result[last.self].dim = 3
    /\ deltas[last.self].dim = 2

FrontToBack ==
    \A k \in 1..Len(built) :
        built[k][2] = IF k = 1 THEN InputLayer ELSE built[k - 1][1]

\* C5: when an initializer returns, the node's predecessor link is the
\* predecessor, the predecessor's successor link is the node, the callbacks are
\* the layer kind's own, the parameter count is 0 and the handle returned is the
\* node; in a chain built front to back every node is its predecessor's
\* successor; and the parameter count of every node stays 0.
C5_InitializerWiring ==
    /\ last.op = "initialize" =>
         LET n == last.self
             leaky == cfg[n].kind = "leaky_relu"
         IN  /\ base[n].input_layer = last.arg
             /\ base[last.arg].output_layer = n
             /\ base[n].forward = IF leaky THEN "ailayer_leaky_relu_forward"
                                  ELSE "ailayer_sigmoid_forward"
             /\ base[n].backward = IF leaky THEN "ailayer_leaky_relu_backward"
                                   ELSE "ailayer_sigmoid_backward"
             /\ base[n].calc_result_shape =
                  IF leaky THEN "ailayer_leaky_relu_calc_result_shape"
                  ELSE "ailayer_sigmoid_calc_result_shape"
             /\ base[n].trainable_params_count = 0
             /\ last.ret = n
    /\ FrontToBack => \A m \in Built : base[base[m].input_layer].output_layer = m
    /\ \A m \in Built : base[m].trainable_params_count = 0

\* The whole chain was built front to back and backward has run on it.
C5_Witness ==
    /\ FrontToBack /\ Len(built) = NumLayers
    /\ last.op = "backward"

C7_ScratchLifetime ==
    /\ pc.at = "idle" => scratch = <<>>
    /\ pc.at # "idle" =>
         /\ Len(scratch) = 1
         /\ LET t == scratch[1]
                x == result[Pred(pc.self)]
                elems == Elements(x, shapeMem)
            IN  /\ t.shape = x.shape
                /\ t.dtype = x.dtype
                /\ t.dim = 2
                /\ Len(t.data) = elems
                /\ t.data_bytes = elems * (IF x.dtype = "q7" THEN 1 ELSE 4)
                /\ t.params_bytes = (IF x.dtype = "q7" THEN 4 ELSE 0) + 1

\* A scratch tensor of a quantized predecessor, about to be multiplied into
\* the gradient slot.
C7_Witness ==
    /\ pc.at = "multiply"
    /\ Len(scratch) = 1
    /\ scratch[1].dtype = "q7"
    /\ scratch[1].data_bytes = 3

\* What a forward call on self must leave in the result tensors.
ForwardFrame(self) ==
    LET x == result[Pred(self)]
        f(i) == IF cfg[self].kind = "leaky_relu"
                THEN (IF x.data[i][1] < 0 THEN RMul(cfg[self].alpha, x.data[i])
                      ELSE x.data[i])
                ELSE SigmoidScalar(x.data[i])
    IN  /\ \A m \in Nodes \ {self} : result'[m] = result[m]
        /\ result'[self].dtype = result[self].dtype
        /\ result'[self].dim = result[self].dim
        /\ result'[self].shape = result[self].shape
        /\ \A i \in 1..Cap :
             result'[self].data[i] =
                 IF i <= Elements(x, shapeMem) THEN f(i) ELSE result[self].data[i]

\* What a step of a backward call on self must leave in the gradient tensors.
BackwardFrame(self) ==
    /\ \A m \in Nodes \ {self} : deltas'[m] = deltas[m]
    /\ deltas'[self].dtype = deltas[self].dtype
    /\ deltas'[self].dim = deltas[self].dim
    /\ deltas'[self].shape = deltas[self].shape

\* The frame of one step: of a forward call, of a Leaky ReLU backward call, of
\* a statement of a Sigmoid backward call.
C8_Step ==
    /\ (pc.at = "idle" /\ pc'.at = "idle" /\ last'.op = "forward") =>
         /\ ForwardFrame(last'.self)
         /\ UNCHANGED <<cfg, base, deltas, shapeMem, scratch>>
    /\ (pc.at = "idle" /\ pc'.at = "idle" /\ last'.op = "backward") =>
         /\ BackwardFrame(last'.self)
         /\ UNCHANGED <<cfg, base, result, shapeMem, scratch>>
    /\ (pc.at # "idle" \/ pc'.at # "idle") =>
         /\ BackwardFrame(IF pc.at # "idle" THEN pc.self ELSE pc'.self)
         /\ UNCHANGED <<cfg, base, result, shapeMem>>

\* C8: a forward call changes only the data of the node's own result tensor,
\* to activate(predecessor.result); every step of a backward call changes only
\* the data of the node's own gradient slot (and the call's scratch tensor).
C8_SingleWriterFrame == [][C8_Step]_vars

\* A forward call has returned on a node whose gradient slot an earlier
\* backward call wrote.
C8_Witness ==
    /\ JustReturned("forward", cfg[last.self].kind)
    /\ deltas[last.self].data \notin {Fill(<<0, 1>>), Fill(<<1, 1>>)}
    /\ result[last.self].data \notin {Fill(<<0, 1>>), Fill(<<1, 1>>)}

\* The write of the gradient slot by a Sigmoid backward call that directly
\* follows a backward call on the same node.
C9_Step ==
    ( /\ pc.at = "multiply" /\ pc'.at = "return"
      /\ last.op = "backward" /\ last.self = pc.self
      /\ base[pc.self].output_layer # NULL ) =>
        deltas' = deltas

\* C9: a Sigmoid backward call that follows a Sigmoid backward call on the same
\* node, with the predecessor's result and the successor's gradient unchanged
\* in between, leaves the gradient slot as the earlier call left it, whatever
\* the scratch tensor held on entry.
C9_RepeatedBackwardStable == [][C9_Step]_vars

\* The second of two Sigmoid backward calls in a row on one node has written a
\* gradient that is not a constant fill.
C9_Witness ==
    /\ pc.at = "return"
    /\ last.op = "backward" /\ last.self = pc.self
    /\ Succ(pc.self) # NULL
    /\ deltas[pc.self].data \notin {Fill(<<0, 1>>), Fill(<<1, 1>>)}

\* C10 as claimed: an initializer called on a predecessor that is absent or
\* not initialized returns no handle and leaves the node as it was.
C10_UninitializedPredecessorRejected ==
    (last.op = "initialize" /\ ~last.flag) =>
        /\ last.ret = NULL
        /\ base[last.self].layer_type = "unset"
        /\ base[last.self].input_layer = NULL

\* C10 as amended: nothing is checked.  On a predecessor that exists but is not
\* initialized the initializer returns the node's handle, sets both links,
\* installs the callbacks and copies the shape pointer and the dimensionality
\* the predecessor's storage holds; on the null pointer it traps or returns the
\* handle of a node whose predecessor link is null.
C10_UninitializedPredecessorAccepted ==
    (last.op = "initialize" /\ ~last.flag /\ ~fault) =>
        LET n == last.self IN
        /\ last.ret = n
        /\ base[n].input_layer = last.arg
        /\ base[n].layer_type # "unset"
        /\ base[n].forward # "unset" /\ base[n].backward # "unset"
        /\ last.arg # NULL =>
             /\ base[last.arg].layer_type = "unset"
             /\ base[last.arg].output_layer = n
             /\ result[n].shape = result[last.arg].shape
             /\ result[n].dim = result[last.arg].dim

\* An initializer has returned on the storage of a layer not yet initialized.
C10_Witness ==
    /\ last.op = "initialize" /\ ~last.flag
    /\ last.arg \in Layers
    /\ last.ret = last.self
====
